---- MODULE Spec2Model ----
(***************************************************************************)
(* The jigsaw puzzle controller (hooks/usePuzzle.js), the engine functions *)
(* it calls (utils/puzzleEngine.js), the timer its notifications drive     *)
(* (hooks/useTimer.js) and the App handlers that drive it (App.jsx), as a  *)
(* state machine.                                                          *)
(*                                                                         *)
(* Lengths are integers counting 1/27720 of a pixel (27720 is the least    *)
(* common multiple of 1..11), so that the piece sizes 800 / c and 600 / r  *)
(* are exact for every grid modelled.  Math.random() is a draw from Rand,  *)
(* numerators of sixteenths, taken in call order from a cyclic stream.     *)
(*                                                                         *)
(* Every DOM event handler runs against the callbacks of the latest        *)
(* committed render; inside one handler the callbacks keep the values of   *)
(* `completed` and `hasStarted` they closed over, while the functional     *)
(* updaters passed to setPieces / setMoveCount are applied in call order.  *)
(***************************************************************************)
EXTENDS Integers, Sequences, FiniteSets, TLC

VARIABLES
    pieces,          \* usePuzzle: useState([])
    moveCount,       \* usePuzzle: useState(0)
    completed,       \* usePuzzle: useState(false)
    hasStarted,      \* usePuzzle: useState(false)
    difficulty,      \* App: useState('medium')
    customCols,      \* App: useState(6)
    customRows,      \* App: useState(4)
    rotationMode,    \* App: useState('none')
    hintPiece,       \* App: useState(null); the id of the piece object held
    hintTimers,      \* App: pending setTimeout callbacks of handleHint
    isRunning,       \* useTimer: useState(false)
    seconds,         \* useTimer: useState(0)
    firstMoveFired,  \* calls of onFirstMove since the last initPuzzle
    completeFired,   \* calls of onComplete since the last initPuzzle
    last             \* the last command the controller was given

vars == <<pieces, moveCount, completed, hasStarted, difficulty, customCols,
          customRows, rotationMode, hintPiece, hintTimers, isRunning, seconds,
          firstMoveFired, completeFired, last>>

hookVars == <<pieces, moveCount, completed, hasStarted, firstMoveFired,
              completeFired, isRunning>>

settingVars == <<difficulty, customCols, customRows, rotationMode>>

hintVars == <<hintPiece, hintTimers>>

timerVars == <<isRunning, seconds>>

----------------------------------------------------------------------------
(* Bounds *)

MaxWork == 7         \* cap of moveCount times the number of pieces, above 1 move
MaxTimers == 1       \* cap of the pending hint timeouts
MaxSeconds == 1      \* cap of the seconds the timer counts
MaxGrid == 10        \* cap of the columns and rows given to the engine alone
MaxPieces == 9       \* cap of the totalPieces given to getGridFromPieceCount
MaxTime == 6000      \* cap of the seconds given to formatTime

Rand == {0, 15}      \* Math.random() in sixteenths: 0 and 15/16
RotationModes == {"none", "90", "180"}
Grids == {[difficulty |-> "custom", customCols |-> 2, customRows |-> 1]}
EasyGrids == {[difficulty |-> "easy", customCols |-> 6, customRows |-> 4]}
Streams == [1..3 -> Rand]   \* the draws, repeated in a cycle
NoPiece == [id |-> -1]      \* null

----------------------------------------------------------------------------
(* utils/puzzleEngine.js *)

PUZZLE_WIDTH == 800
PUZZLE_HEIGHT == 600

Px(n) == 27720 * n

Abs(n) == IF n < 0 THEN -n ELSE n

Max(a, b) == IF a >= b THEN a ELSE b

Draw(s, j) == s[((j - 1) % Len(s)) + 1]

\* generatePieces that takes the correct position from (row, col) for (col, row).
generatePiecesTransposed(cols, rows, imageWidth, imageHeight) ==
    LET pieceW == imageWidth \div cols
        pieceH == imageHeight \div rows
    IN  [i \in 1..(rows * cols) |->
            LET row == (i - 1) \div cols
                col == (i - 1) % cols
            IN  [id |-> row * cols + col,
                 row |-> row,
                 col |-> col,
                 correctX |-> row * pieceW,
                 correctY |-> col * pieceH,
                 currentX |-> 0,
                 currentY |-> 0,
                 width |-> pieceW,
                 height |-> pieceH,
                 rotation |-> 0,
                 isPlaced |-> FALSE]]

\* generatePieces that numbers the pieces by row * rows + col.
generatePiecesIdByRows(cols, rows, imageWidth, imageHeight) ==
    LET pieceW == imageWidth \div cols
        pieceH == imageHeight \div rows
    IN  [i \in 1..(rows * cols) |->
            LET row == (i - 1) \div cols
                col == (i - 1) % cols
            IN  [id |-> row * rows + col,
                 row |-> row,
                 col |-> col,
                 correctX |-> col * pieceW,
                 correctY |-> row * pieceH,
                 currentX |-> 0,
                 currentY |-> 0,
                 width |-> pieceW,
                 height |-> pieceH,
                 rotation |-> 0,
                 isPlaced |-> FALSE]]

generatePieces(cols, rows, imageWidth, imageHeight) ==
    LET pieceW == imageWidth \div cols
        pieceH == imageHeight \div rows
    IN  [i \in 1..(rows * cols) |->
            LET row == (i - 1) \div cols
                col == (i - 1) % cols
            IN  [id |-> row * cols + col,
                 row |-> row,
                 col |-> col,
                 correctX |-> col * pieceW,
                 correctY |-> row * pieceH,
                 currentX |-> 0,
                 currentY |-> 0,
                 width |-> pieceW,
                 height |-> pieceH,
                 rotation |-> 0,
                 isPlaced |-> FALSE]]

DrawsPerPiece(mode) == IF mode \in {"90", "180"} THEN 3 ELSE 2

\* getRandomRotation that draws among the four rotations in every mode but "180".
getRandomRotationElse90(mode, r) ==
    IF mode = "180" THEN <<0, 180>>[((r * 2) \div 16) + 1]
    ELSE <<0, 90, 180, 270>>[((r * 4) \div 16) + 1]

getRandomRotation(mode, r) ==
    IF mode = "90" THEN <<0, 90, 180, 270>>[((r * 4) \div 16) + 1]
    ELSE IF mode = "180" THEN <<0, 180>>[((r * 2) \div 16) + 1]
    ELSE 0

\* shufflePieces without the Math.max(0, ...) of its ranges.
shufflePiecesNoMax(ps, areaWidth, areaHeight, pieceW, pieceH, mode, s) ==
    [i \in 1..Len(ps) |->
        LET base == (i - 1) * DrawsPerPiece(mode)
        IN  [ps[i] EXCEPT
                !.currentX = (Draw(s, base + 1) * (areaWidth - pieceW)) \div 16,
                !.currentY = (Draw(s, base + 2) * (areaHeight - pieceH)) \div 16,
                !.rotation = getRandomRotation(mode, Draw(s, base + 3)),
                !.isPlaced = FALSE]]

shufflePieces(ps, areaWidth, areaHeight, pieceW, pieceH, mode, s) ==
    [i \in 1..Len(ps) |->
        LET base == (i - 1) * DrawsPerPiece(mode)
        IN  [ps[i] EXCEPT
                !.currentX = (Draw(s, base + 1) * Max(0, areaWidth - pieceW)) \div 16,
                !.currentY = (Draw(s, base + 2) * Max(0, areaHeight - pieceH)) \div 16,
                !.rotation = getRandomRotation(mode, Draw(s, base + 3)),
                !.isPlaced = FALSE]]

\* shufflePieces that assigns the scattered fields to the pieces it was given.
shufflePiecesCallInPlace(ps, areaWidth, areaHeight, pieceW, pieceH, mode, s) ==
    LET out == shufflePieces(ps, areaWidth, areaHeight, pieceW, pieceH, mode, s)
    IN  [arg |-> out, ret |-> out]

\* A call of shufflePieces: the array it was given as the call leaves it, and
\* the array it returns, which map and the object literal build anew.
shufflePiecesCall(ps, areaWidth, areaHeight, pieceW, pieceH, mode, s) ==
    [arg |-> ps,
     ret |-> shufflePieces(ps, areaWidth, areaHeight, pieceW, pieceH, mode, s)]

\* isNearCorrectPosition with the bounds compared by <= .
isNearCorrectPositionInclusive(piece, threshold) ==
    IF piece.rotation # 0 THEN FALSE
    ELSE LET dx == Abs(piece.currentX - piece.correctX)
             dy == Abs(piece.currentY - piece.correctY)
         IN  dx <= threshold /\ dy <= threshold

\* isNearCorrectPosition that is content with one axis.
isNearCorrectPositionOr(piece, threshold) ==
    IF piece.rotation # 0 THEN FALSE
    ELSE LET dx == Abs(piece.currentX - piece.correctX)
             dy == Abs(piece.currentY - piece.correctY)
         IN  dx < threshold \/ dy < threshold

isNearCorrectPosition(piece, threshold) ==
    IF piece.rotation # 0 THEN FALSE
    ELSE LET dx == Abs(piece.currentX - piece.correctX)
             dy == Abs(piece.currentY - piece.correctY)
         IN  dx < threshold /\ dy < threshold

\* A call of isNearCorrectPosition, whose threshold may be left out.
isNearCorrectPositionCall(piece, threshold) ==
    isNearCorrectPosition(piece, IF threshold.given THEN threshold.value ELSE Px(30))

\* snapPiece that locks the piece where it lies.
snapPieceInPlace(piece) ==
    [piece EXCEPT !.rotation = 0, !.isPlaced = TRUE]

\* snapPiece that keeps the rotation of the piece.
snapPieceKeepsRotation(piece) ==
    [piece EXCEPT !.currentX = piece.correctX,
                  !.currentY = piece.correctY,
                  !.isPlaced = TRUE]

snapPiece(piece) ==
    [piece EXCEPT !.currentX = piece.correctX,
                  !.currentY = piece.correctY,
                  !.rotation = 0,
                  !.isPlaced = TRUE]

\* A call of snapPiece: the piece it was given as the call leaves it, and the
\* object literal it returns.
snapPieceCall(piece) ==
    [arg |-> piece, ret |-> snapPiece(piece)]

\* isPuzzleComplete without the length test.
isPuzzleCompleteEvery(ps) ==
    \A i \in 1..Len(ps) : ps[i].isPlaced

\* isPuzzleComplete with some for every.
isPuzzleCompleteSome(ps) ==
    Len(ps) > 0 /\ \E i \in 1..Len(ps) : ps[i].isPlaced

isPuzzleComplete(ps) ==
    Len(ps) > 0 /\ \A i \in 1..Len(ps) : ps[i].isPlaced

\* getDifficultySettings whose default entry is the medium one.
getDifficultySettingsDefaultMedium(d) ==
    CASE d = "easy" -> [cols |-> 3, rows |-> 3, snapThreshold |-> 40]
      [] d = "hard" -> [cols |-> 8, rows |-> 6, snapThreshold |-> 20]
      [] d = "expert" -> [cols |-> 12, rows |-> 9, snapThreshold |-> 15]
      [] OTHER -> [cols |-> 5, rows |-> 4, snapThreshold |-> 30]

getDifficultySettings(d) ==
    CASE d = "easy" -> [cols |-> 3, rows |-> 3, snapThreshold |-> 40]
      [] d = "medium" -> [cols |-> 5, rows |-> 4, snapThreshold |-> 30]
      [] d = "hard" -> [cols |-> 8, rows |-> 6, snapThreshold |-> 20]
      [] d = "expert" -> [cols |-> 12, rows |-> 9, snapThreshold |-> 15]
      [] OTHER -> [cols |-> 4, rows |-> 3, snapThreshold |-> 30]

\* A string is the sequence of its characters.
DigitChars == <<"0", "1", "2", "3", "4", "5", "6", "7", "8", "9">>

\* Number.prototype.toString of a non-negative integer.
RECURSIVE toString(_)
toString(n) ==
    IF n < 10 THEN <<DigitChars[n + 1]>>
    ELSE toString(n \div 10) \o <<DigitChars[(n % 10) + 1]>>

\* String.prototype.padStart with a one-character filler.
padStart(str, targetLength, padString) ==
    IF Len(str) >= targetLength THEN str
    ELSE [i \in 1..(targetLength - Len(str)) |-> padString] \o str

\* formatTime whose minutes stop at 59.
formatTimeClamped(totalSeconds) ==
    LET mins == IF totalSeconds \div 60 > 59 THEN 59 ELSE totalSeconds \div 60
        secs == totalSeconds % 60
    IN  padStart(toString(mins), 2, "0") \o <<":">>
            \o padStart(toString(secs), 2, "0")

formatTime(totalSeconds) ==
    LET mins == totalSeconds \div 60
        secs == totalSeconds % 60
    IN  padStart(toString(mins), 2, "0") \o <<":">>
            \o padStart(toString(secs), 2, "0")

\* rotatePiece without the wrap at 360.
rotatePieceUtilNoWrap(piece, step) ==
    [piece EXCEPT !.rotation = piece.rotation + step]

rotatePieceUtil(piece, step) ==
    [piece EXCEPT !.rotation = (piece.rotation + step) % 360]

\* rotatePiece whose step defaults to 180.
rotatePieceUtilCallDefault180(piece, step) ==
    [arg |-> piece,
     ret |-> rotatePieceUtil(piece, IF step.given THEN step.value ELSE 180)]

\* A call rotatePiece(piece, step), step left out or given: the piece as the
\* call leaves it and the piece returned.
rotatePieceUtilCall(piece, step) ==
    [arg |-> piece,
     ret |-> rotatePieceUtil(piece, IF step.given THEN step.value ELSE 90)]

----------------------------------------------------------------------------
(* utils/puzzleEngine.js: the arithmetic of getGridFromPieceCount.  A JS    *)
(* number is an IEEE 754 double; one that is below 32768 and is 0 or at     *)
(* least 1/128 is written here exactly, in base 2^15: Limbs digits, the     *)
(* first the integer part and the others after the point.  The binary       *)
(* digits are counted from 1, the highest of the first digit, to Width.     *)

Mantissa == 53       \* the significant binary digits of a double
LimbBits == 15
Limbs == 5
Base == 2^LimbBits
Width == LimbBits * Limbs

\* The first Limbs digits of the rational p / q, by long division, and
\* whether p / q has digits after them.
Quotient(p, q) ==
    LET r1 == p % q
        r2 == (r1 * Base) % q
        r3 == (r2 * Base) % q
        r4 == (r3 * Base) % q
    IN  [bits |-> <<p \div q, (r1 * Base) \div q, (r2 * Base) \div q,
                    (r3 * Base) \div q, (r4 * Base) \div q>>,
         inexact |-> (r4 * Base) % q # 0]

\* The digit that holds binary digit n, and the power of 2 that n has in it.
LimbOf(n) == ((n - 1) \div LimbBits) + 1
PowerOf(n) == 2^(LimbBits - 1 - ((n - 1) % LimbBits))

Bit(b, n) == (b[LimbOf(n)] \div PowerOf(n)) % 2

\* The place of the first binary digit 1, 0 when there is none.
Lead(b) ==
    IF \A i \in 1..Limbs : b[i] = 0 THEN 0
    ELSE LET i == CHOOSE i \in 1..Limbs : b[i] # 0 /\ \A j \in 1..(i - 1) : b[j] = 0
             k == CHOOSE k \in 1..LimbBits : 2^(k - 1) <= b[i] /\ b[i] < 2^k
         IN  (i - 1) * LimbBits + (LimbBits - k) + 1

\* a + b, exactly; carry[i] is the carry into digit i.
Plus(a, b) ==
    LET carry[i \in 1..Limbs] ==
            IF i = Limbs THEN 0 ELSE (a[i + 1] + b[i + 1] + carry[i + 1]) \div Base
    IN  [i \in 1..Limbs |-> (a[i] + b[i] + carry[i]) % Base] \o <<>>

\* b cut after binary digit n, and whether the cut removes a 1.
Truncate(b, n) ==
    [i \in 1..Limbs |-> IF i < LimbOf(n) THEN b[i]
                        ELSE IF i = LimbOf(n) THEN b[i] - (b[i] % PowerOf(n))
                        ELSE 0] \o <<>>

\* One unit at binary digit n.
Unit(n) == [i \in 1..Limbs |-> IF i = LimbOf(n) THEN PowerOf(n) ELSE 0] \o <<>>

\* Rounding to the nearest double, ties to the even one.
RoundToDouble(b, inexact) ==
    LET lead == Lead(b)
        low == lead + Mantissa - 1
    IN  IF lead = 0 \/ low >= Width THEN b
        ELSE LET guard == Bit(b, low + 1) = 1
                 sticky == inexact \/ Truncate(b, low + 1) # b
                 trunc == Truncate(b, low)
             IN  IF guard /\ (sticky \/ Bit(b, low) = 1)
                 THEN Plus(trunc, Unit(low)) ELSE trunc

\* The JS quotient p / q of two integers.
Double(p, q) ==
    LET quotient == Quotient(p, q)
    IN  RoundToDouble(quotient.bits, quotient.inexact)

Less(a, b) ==
    \E i \in 1..Limbs : a[i] < b[i] /\ \A j \in 1..(i - 1) : a[j] = b[j]

\* a - b for a >= b; borrow[i] is what digit i lends.
Minus(a, b) ==
    LET borrow[i \in 1..Limbs] ==
            IF i = Limbs THEN 0
            ELSE IF a[i + 1] - b[i + 1] - borrow[i + 1] < 0 THEN 1 ELSE 0
    IN  [i \in 1..Limbs |-> (Base + a[i] - b[i] - borrow[i]) % Base] \o <<>>

\* Math.abs(a - b): the difference, rounded to a double.
AbsDifference(a, b) ==
    RoundToDouble(IF Less(a, b) THEN Minus(b, a) ELSE Minus(a, b), FALSE)

\* k * x, exactly, for k of 0..Base; carry[i] is the carry into digit i.
Multiple(k, x) ==
    LET carry[i \in 1..Limbs] ==
            IF i = Limbs THEN 0 ELSE (k * x[i + 1] + carry[i + 1]) \div Base
    IN  [i \in 1..Limbs |-> (k * x[i] + carry[i]) % Base] \o <<>>

\* Math.round(x): the integer part of x + 1/2.
MathRound(x) == x[1] + Bit(x, LimbBits + 1)

\* The loop of getGridFromPieceCount from row count r on; best holds
\* bestCols, bestRows and bestDiff, which is Infinity while best.inf.
RECURSIVE gridSearch(_, _, _, _)
gridSearch(totalPieces, aspectRatio, r, best) ==
    IF r > totalPieces THEN best
    ELSE LET c == MathRound(Double(totalPieces, r))
             cellAspect == Double(c, r)
             diff == AbsDifference(cellAspect, aspectRatio)
         IN  IF c < 1 THEN gridSearch(totalPieces, aspectRatio, r + 1, best)
             ELSE IF best.inf \/ Less(diff, best.bestDiff)
             THEN gridSearch(totalPieces, aspectRatio, r + 1,
                             [bestCols |-> c, bestRows |-> r, bestDiff |-> diff,
                              inf |-> FALSE])
             ELSE gridSearch(totalPieces, aspectRatio, r + 1, best)

getGridFromPieceCount(totalPieces, aspectRatio) ==
    LET best == gridSearch(totalPieces, aspectRatio, 1,
                           [bestCols |-> 1, bestRows |-> totalPieces,
                            bestDiff |-> aspectRatio, inf |-> TRUE])
    IN  [cols |-> Max(1, best.bestCols), rows |-> Max(1, best.bestRows)]

----------------------------------------------------------------------------
(* App.jsx: the settings the hook is called with *)

\* getSettings with < for <= in the custom thresholds.
getSettingsStrict(d, cc, cr) ==
    IF d = "custom"
    THEN LET total == cc * cr
         IN  [cols |-> cc, rows |-> cr,
              snapThreshold |-> IF total < 12 THEN 40
                                ELSE IF total < 30 THEN 30
                                ELSE IF total < 60 THEN 20 ELSE 15]
    ELSE getDifficultySettings(d)

getSettings(d, cc, cr) ==
    IF d = "custom"
    THEN LET total == cc * cr
         IN  [cols |-> cc, rows |-> cr,
              snapThreshold |-> IF total <= 12 THEN 40
                                ELSE IF total <= 30 THEN 30
                                ELSE IF total <= 60 THEN 20 ELSE 15]
    ELSE getDifficultySettings(d)

settings == getSettings(difficulty, customCols, customRows)

imageWidth == Px(PUZZLE_WIDTH)
imageHeight == Px(PUZZLE_HEIGHT)
snapThreshold == Px(settings.snapThreshold)

----------------------------------------------------------------------------
(* hooks/useTimer.js *)

\* The interval callback, registered while isRunning.
tick ==
    /\ isRunning
    /\ seconds < MaxSeconds
    /\ seconds' = seconds + 1
    /\ UNCHANGED <<hookVars, settingVars, hintVars, last>>

reset ==
    /\ isRunning' = FALSE
    /\ seconds' = 0

----------------------------------------------------------------------------
(* hooks/usePuzzle.js *)

Hook == [pieces |-> pieces, moveCount |-> moveCount, completed |-> completed,
         hasStarted |-> hasStarted, firstMoveFired |-> firstMoveFired,
         completeFired |-> completeFired, isRunning |-> isRunning]

Closure == [completed |-> completed, hasStarted |-> hasStarted]

MoveLimit == Max(1, MaxWork \div Max(1, Len(pieces)))

PieceIds == -1..Len(pieces)

Hit(ps, pieceId) ==
    IF \A i \in 1..Len(ps) : ps[i].id # pieceId THEN "none"
    ELSE IF \E i \in 1..Len(ps) : ps[i].id = pieceId /\ ps[i].isPlaced
         THEN "placed" ELSE "unplaced"

\* The updater of movePiece that brings the moved piece to the end of the list.
movePieceUpdaterToTop(prev, pieceId, newX, newY, threshold) ==
    LET upd == [i \in 1..Len(prev) |->
                  LET p == prev[i]
                      moved == [p EXCEPT !.currentX = newX, !.currentY = newY]
                  IN  IF p.id # pieceId \/ p.isPlaced THEN p
                      ELSE IF isNearCorrectPosition(moved, threshold)
                           THEN snapPiece(moved)
                           ELSE moved]
    IN  SelectSeq(upd, LAMBDA p : p.id # pieceId) \o
        SelectSeq(upd, LAMBDA p : p.id = pieceId)

\* The updater of movePiece without the test of isPlaced.
movePieceUpdaterNoLock(prev, pieceId, newX, newY, threshold) ==
    [i \in 1..Len(prev) |->
        LET p == prev[i]
            moved == [p EXCEPT !.currentX = newX, !.currentY = newY]
        IN  IF p.id # pieceId THEN p
            ELSE IF isNearCorrectPosition(moved, threshold)
                 THEN snapPiece(moved)
                 ELSE moved]

\* The updater of movePiece with && for || in its first test.
movePieceUpdaterAnd(prev, pieceId, newX, newY, threshold) ==
    [i \in 1..Len(prev) |->
        LET p == prev[i]
            moved == [p EXCEPT !.currentX = newX, !.currentY = newY]
        IN  IF p.id # pieceId /\ p.isPlaced THEN p
            ELSE IF isNearCorrectPosition(moved, threshold)
                 THEN snapPiece(moved)
                 ELSE moved]

movePieceUpdater(prev, pieceId, newX, newY, threshold) ==
    [i \in 1..Len(prev) |->
        LET p == prev[i]
            moved == [p EXCEPT !.currentX = newX, !.currentY = newY]
        IN  IF p.id # pieceId \/ p.isPlaced THEN p
            ELSE IF isNearCorrectPosition(moved, threshold)
                 THEN snapPiece(moved)
                 ELSE moved]

rotatePieceUpdater(prev, pieceId, step, threshold) ==
    [i \in 1..Len(prev) |->
        LET p == prev[i]
            rotated == rotatePieceUtil(p, step)
        IN  IF p.id # pieceId \/ p.isPlaced THEN p
            ELSE IF isNearCorrectPosition(rotated, threshold)
                 THEN snapPiece(rotated)
                 ELSE rotated]

\* Commit that tests completion on the pieces before the update.
CommitStale(h, cl, updated) ==
    LET fin == ~cl.completed /\ isPuzzleComplete(h.pieces)
    IN  [pieces |-> updated,
         moveCount |-> h.moveCount + 1,
         completed |-> IF fin THEN TRUE ELSE h.completed,
         hasStarted |-> IF ~cl.hasStarted THEN TRUE ELSE h.hasStarted,
         firstMoveFired |-> h.firstMoveFired + (IF ~cl.hasStarted THEN 1 ELSE 0),
         completeFired |-> h.completeFired + (IF fin THEN 1 ELSE 0),
         isRunning |-> IF fin THEN FALSE
                       ELSE IF ~cl.hasStarted THEN TRUE ELSE h.isRunning]

\* Commit that counts only the commands that change a piece.
CommitCountsChanges(h, cl, updated) ==
    LET fin == ~cl.completed /\ isPuzzleComplete(updated)
    IN  [pieces |-> updated,
         moveCount |-> h.moveCount + (IF updated # h.pieces THEN 1 ELSE 0),
         completed |-> IF fin THEN TRUE ELSE h.completed,
         hasStarted |-> IF ~cl.hasStarted THEN TRUE ELSE h.hasStarted,
         firstMoveFired |-> h.firstMoveFired + (IF ~cl.hasStarted THEN 1 ELSE 0),
         completeFired |-> h.completeFired + (IF fin THEN 1 ELSE 0),
         isRunning |-> IF fin THEN FALSE
                       ELSE IF ~cl.hasStarted THEN TRUE ELSE h.isRunning]

\* Commit whose onComplete does not stop the timer.
CommitNeverStops(h, cl, updated) ==
    LET fin == ~cl.completed /\ isPuzzleComplete(updated)
    IN  [pieces |-> updated,
         moveCount |-> h.moveCount + 1,
         completed |-> IF fin THEN TRUE ELSE h.completed,
         hasStarted |-> IF ~cl.hasStarted THEN TRUE ELSE h.hasStarted,
         firstMoveFired |-> h.firstMoveFired + (IF ~cl.hasStarted THEN 1 ELSE 0),
         completeFired |-> h.completeFired + (IF fin THEN 1 ELSE 0),
         isRunning |-> IF ~cl.hasStarted THEN TRUE ELSE h.isRunning]

\* The calls a handler makes after its `if (completed) return`, on hook state
\* h, with the values cl the callback closed over.
Commit(h, cl, updated) ==
    LET fin == ~cl.completed /\ isPuzzleComplete(updated)
    IN  [pieces |-> updated,
         moveCount |-> h.moveCount + 1,
         completed |-> IF fin THEN TRUE ELSE h.completed,
         hasStarted |-> IF ~cl.hasStarted THEN TRUE ELSE h.hasStarted,
         firstMoveFired |-> h.firstMoveFired + (IF ~cl.hasStarted THEN 1 ELSE 0),
         completeFired |-> h.completeFired + (IF fin THEN 1 ELSE 0),
         isRunning |-> IF fin THEN FALSE
                       ELSE IF ~cl.hasStarted THEN TRUE ELSE h.isRunning]

\* movePiece without its `if (completed) return`.
movePieceCallNoGate(h, cl, pieceId, newX, newY, threshold) ==
    Commit(h, cl, movePieceUpdater(h.pieces, pieceId, newX, newY, threshold))

movePieceCall(h, cl, pieceId, newX, newY, threshold) ==
    IF cl.completed THEN h
    ELSE Commit(h, cl, movePieceUpdater(h.pieces, pieceId, newX, newY, threshold))

\* rotatePiece whose step is 90 in every mode.
rotatePieceCallStep90(h, cl, pieceId, mode, threshold) ==
    IF cl.completed THEN h
    ELSE Commit(h, cl, rotatePieceUpdater(h.pieces, pieceId, 90, threshold))

rotatePieceCall(h, cl, pieceId, mode, threshold) ==
    IF cl.completed THEN h
    ELSE LET step == IF mode = "180" THEN 180 ELSE 90
         IN  Commit(h, cl, rotatePieceUpdater(h.pieces, pieceId, step, threshold))

SetHook(h) ==
    /\ pieces' = h.pieces
    /\ moveCount' = h.moveCount
    /\ completed' = h.completed
    /\ hasStarted' = h.hasStarted
    /\ firstMoveFired' = h.firstMoveFired
    /\ completeFired' = h.completeFired
    /\ isRunning' = h.isRunning

\* initPuzzle without its setCompleted(false).
initPuzzleKeepsCompleted(g, mode, s) ==
    LET st == getSettings(g.difficulty, g.customCols, g.customRows)
        generated == generatePieces(st.cols, st.rows, imageWidth, imageHeight)
        shuffled == shufflePieces(generated, imageWidth, imageHeight,
                                  imageWidth \div st.cols, imageHeight \div st.rows,
                                  mode, s)
    IN  /\ difficulty' = g.difficulty
        /\ customCols' = g.customCols
        /\ customRows' = g.customRows
        /\ rotationMode' = mode
        /\ pieces' = shuffled
        /\ moveCount' = 0
        /\ completed' = completed
        /\ hasStarted' = FALSE
        /\ firstMoveFired' = 0
        /\ completeFired' = 0
        /\ last' = [op |-> "Initialize", hit |-> "none", gate |-> completed,
                    n |-> 0]
        /\ UNCHANGED hintVars

initPuzzle(g, mode, s) ==
    LET st == getSettings(g.difficulty, g.customCols, g.customRows)
        generated == generatePieces(st.cols, st.rows, imageWidth, imageHeight)
        shuffled == shufflePieces(generated, imageWidth, imageHeight,
                                  imageWidth \div st.cols, imageHeight \div st.rows,
                                  mode, s)
    IN  /\ difficulty' = g.difficulty
        /\ customCols' = g.customCols
        /\ customRows' = g.customRows
        /\ rotationMode' = mode
        /\ pieces' = shuffled
        /\ moveCount' = 0
        /\ completed' = FALSE
        /\ hasStarted' = FALSE
        /\ firstMoveFired' = 0
        /\ completeFired' = 0
        /\ last' = [op |-> "Initialize", hit |-> "none", gate |-> completed,
                    n |-> 0]
        /\ UNCHANGED hintVars

movePiece(pieceId, newX, newY) ==
    /\ completed \/ moveCount < MoveLimit
    /\ SetHook(movePieceCall(Hook, Closure, pieceId, newX, newY, snapThreshold))
    /\ last' = [op |-> "Move", hit |-> Hit(pieces, pieceId), gate |-> completed,
                n |-> 1]
    /\ UNCHANGED <<settingVars, hintVars, seconds>>

rotatePiece(pieceId) ==
    /\ completed \/ moveCount < MoveLimit
    /\ SetHook(rotatePieceCall(Hook, Closure, pieceId, rotationMode, snapThreshold))
    /\ last' = [op |-> "Rotate", hit |-> Hit(pieces, pieceId), gate |-> completed,
                n |-> 1]
    /\ UNCHANGED <<settingVars, hintVars, seconds>>

----------------------------------------------------------------------------
(* App.jsx *)

Unplaced(ps) == SelectSeq(ps, LAMBDA p : ~p.isPlaced)

\* The forEach whose calls all update the pieces the handler closed over, so
\* that the update of the last call is the one that stays.
forEachMoveStale(h, cl, reshuffled, k, threshold) ==
    IF k > Len(reshuffled) THEN h
    ELSE LET q == reshuffled[Len(reshuffled)]
         IN  movePieceCall(h, cl, q.id, q.currentX, q.currentY, threshold)

RECURSIVE forEachMove(_, _, _, _, _)
forEachMove(h, cl, reshuffled, k, threshold) ==
    IF k > Len(reshuffled) THEN h
    ELSE forEachMove(movePieceCall(h, cl, reshuffled[k].id, reshuffled[k].currentX,
                                   reshuffled[k].currentY, threshold),
                     cl, reshuffled, k + 1, threshold)

\* handleShuffle that sets the scattered collection itself, every piece of it.
handleShuffleAll(s) ==
    LET pw == imageWidth \div settings.cols
        ph == imageHeight \div settings.rows
        reshuffled == shufflePieces(pieces, imageWidth, imageHeight,
                                    pw, ph, rotationMode, s)
    IN  /\ completed \/ moveCount + Len(reshuffled) <= MoveLimit
        /\ pieces' = reshuffled
        /\ UNCHANGED <<moveCount, completed, hasStarted, firstMoveFired,
                       completeFired, isRunning>>
        /\ last' = [op |-> "Reshuffle", hit |-> "none", gate |-> completed,
                    n |-> Len(reshuffled)]
        /\ UNCHANGED <<settingVars, hintVars, seconds>>

\* handleShuffle that also gives each unplaced piece the rotation drawn for it.
handleShuffleRotating(s) ==
    LET pw == imageWidth \div settings.cols
        ph == imageHeight \div settings.rows
        reshuffled == shufflePieces(Unplaced(pieces), imageWidth, imageHeight,
                                    pw, ph, rotationMode, s)
        drawn(p) == {reshuffled[j].rotation :
                        j \in {j \in 1..Len(reshuffled) : reshuffled[j].id = p.id}}
        turned == [i \in 1..Len(pieces) |->
                      IF pieces[i].isPlaced THEN pieces[i]
                      ELSE [pieces[i] EXCEPT !.rotation = CHOOSE r \in drawn(pieces[i]) : TRUE]]
    IN  /\ completed \/ moveCount + Len(reshuffled) <= MoveLimit
        /\ IF completed
           THEN UNCHANGED hookVars
           ELSE SetHook(forEachMove([Hook EXCEPT !.pieces = turned], Closure,
                                    reshuffled, 1, snapThreshold))
        /\ last' = [op |-> "Reshuffle", hit |-> "none", gate |-> completed,
                    n |-> IF completed THEN 0 ELSE Len(reshuffled)]
        /\ UNCHANGED <<settingVars, hintVars, seconds>>

\* handleShuffle that counts one move for the whole Reshuffle.
handleShuffleCountsOnce(s) ==
    LET pw == imageWidth \div settings.cols
        ph == imageHeight \div settings.rows
        reshuffled == shufflePieces(Unplaced(pieces), imageWidth, imageHeight,
                                    pw, ph, rotationMode, s)
        h == forEachMove(Hook, Closure, reshuffled, 1, snapThreshold)
    IN  /\ completed \/ moveCount + Len(reshuffled) <= MoveLimit
        /\ IF completed
           THEN UNCHANGED hookVars
           ELSE SetHook([h EXCEPT !.moveCount = moveCount + 1])
        /\ last' = [op |-> "Reshuffle", hit |-> "none", gate |-> completed,
                    n |-> IF completed THEN 0 ELSE Len(reshuffled)]
        /\ UNCHANGED <<settingVars, hintVars, seconds>>

handleShuffle(s) ==
    LET pw == imageWidth \div settings.cols
        ph == imageHeight \div settings.rows
        reshuffled == shufflePieces(Unplaced(pieces), imageWidth, imageHeight,
                                    pw, ph, rotationMode, s)
    IN  /\ completed \/ moveCount + Len(reshuffled) <= MoveLimit
        /\ IF completed
           THEN UNCHANGED hookVars
           ELSE SetHook(forEachMove(Hook, Closure, reshuffled, 1, snapThreshold))
        /\ last' = [op |-> "Reshuffle", hit |-> "none", gate |-> completed,
                    n |-> IF completed THEN 0 ELSE Len(reshuffled)]
        /\ UNCHANGED <<settingVars, hintVars, seconds>>

\* getHintPiece that draws among all the pieces.
getHintPieceAny(r) ==
    IF Len(pieces) = 0 THEN NoPiece
    ELSE pieces[((r * Len(pieces)) \div 16) + 1]

getHintPiece(r) ==
    LET unplaced == Unplaced(pieces)
    IN  IF Len(unplaced) = 0 THEN NoPiece
        ELSE unplaced[((r * Len(unplaced)) \div 16) + 1]

handleHint(r) ==
    LET piece == getHintPiece(r)
    IN  /\ piece = NoPiece \/ hintTimers < MaxTimers
        /\ IF piece = NoPiece
           THEN UNCHANGED hintVars
           ELSE /\ hintPiece' = piece.id
                /\ hintTimers' = hintTimers + 1
        /\ UNCHANGED <<hookVars, settingVars, seconds, last>>

hintTimeout ==
    /\ hintTimers > 0
    /\ hintTimers' = hintTimers - 1
    /\ hintPiece' = NoPiece.id
    /\ UNCHANGED <<hookVars, settingVars, seconds, last>>

\* Of handleReset, the calls that write the timer and the hint; the screen and
\* the image it also clears are read by no command of the controller.
handleReset ==
    /\ reset
    /\ hintPiece' = NoPiece.id
    /\ UNCHANGED <<pieces, moveCount, completed, hasStarted, firstMoveFired,
                   completeFired, settingVars, hintTimers, last>>

----------------------------------------------------------------------------
(* The inputs *)

Offsets(t) == {<<0, 0>>, <<t - 1, 1 - t>>, <<-t, 0>>, <<0, -t>>}

MoveTargets(ps, pieceId) ==
    IF Hit(ps, pieceId) = "none" THEN {<<0, 0>>}
    ELSE {<<0, 0>>} \cup
         {<<ps[pieceId + 1].correctX + d[1], ps[pieceId + 1].correctY + d[2]>> :
            d \in Offsets(snapThreshold)}

Init ==
    /\ pieces = <<>>
    /\ moveCount = 0
    /\ completed = FALSE
    /\ hasStarted = FALSE
    /\ difficulty = "medium"
    /\ customCols = 6
    /\ customRows = 4
    /\ rotationMode = "none"
    /\ hintPiece = NoPiece.id
    /\ hintTimers = 0
    /\ isRunning = FALSE
    /\ seconds = 0
    /\ firstMoveFired = 0
    /\ completeFired = 0
    /\ last = [op |-> "None", hit |-> "none", gate |-> FALSE, n |-> 0]

Initialize == \E g \in Grids, mode \in RotationModes, s \in Streams :
                 reset /\ initPuzzle(g, mode, s)

Move == \E pieceId \in PieceIds :
           \E xy \in MoveTargets(pieces, pieceId) : movePiece(pieceId, xy[1], xy[2])

Rotate == \E pieceId \in PieceIds : rotatePiece(pieceId)

Reshuffle == \E s \in Streams : handleShuffle(s)

Hint == \E r \in Rand : handleHint(r)

Next == Initialize \/ Move \/ Rotate \/ Reshuffle \/ Hint \/ hintTimeout \/ handleReset
           \/ tick

Spec == Init /\ [][Next]_vars

\* The commands of the controller alone, which are the ones that write the
\* pieces and the flags.
NextCommands == Initialize \/ Move \/ Rotate \/ Reshuffle

SpecCommands == Init /\ [][NextCommands]_vars

\* The same commands on the nine-piece grid of difficulty "easy".
InitializeEasy == \E g \in EasyGrids, mode \in RotationModes, s \in Streams :
                     reset /\ initPuzzle(g, mode, s)

NextEasy == InitializeEasy \/ Move \/ Rotate \/ Reshuffle \/ Hint \/ hintTimeout
               \/ handleReset \/ tick

SpecEasy == Init /\ [][NextEasy]_vars

\* The functions of the engine applied on their own, to the pieces of every
\* grid of 1..MaxGrid columns and rows; `last` holds the call and its result.
InitEngine ==
    /\ pieces = <<>>
    /\ moveCount = 0
    /\ completed = FALSE
    /\ hasStarted = FALSE
    /\ difficulty = "custom"
    /\ customCols \in 1..MaxGrid
    /\ customRows \in 1..MaxGrid
    /\ rotationMode = "none"
    /\ hintPiece = NoPiece.id
    /\ hintTimers = 0
    /\ isRunning = FALSE
    /\ seconds = 0
    /\ firstMoveFired = 0
    /\ completeFired = 0
    /\ last = [op |-> "None", hit |-> "none", gate |-> FALSE, n |-> 0]

Generate ==
    /\ last.op = "None"
    /\ pieces' = generatePieces(customCols, customRows, imageWidth, imageHeight)
    /\ last' = [op |-> "Generate", hit |-> "none", gate |-> FALSE, n |-> 0]
    /\ UNCHANGED <<moveCount, completed, hasStarted, firstMoveFired, completeFired,
                   settingVars, hintVars, timerVars>>

\* The collections given to the engine: ps with the pieces of S snapped.
WithPlaced(ps, S) ==
    [i \in 1..Len(ps) |-> IF i \in S THEN snapPiece(ps[i]) ELSE ps[i]]

PlacedSets(ps) == {{}, {1}, 1..Len(ps)}

EngineModes == RotationModes \cup {"other"}

\* The scatter areas: the image, and an area smaller than a piece.
Areas == {<<imageWidth, imageHeight>>, <<0, 0>>}

Shuffle ==
    \E S \in PlacedSets(pieces), mode \in EngineModes, area \in Areas, s \in Streams :
        LET before == WithPlaced(pieces, S)
            pw == imageWidth \div customCols
            ph == imageHeight \div customRows
            call == shufflePiecesCall(before, area[1], area[2], pw, ph, mode, s)
        IN  /\ last.op = "Generate"
            /\ last' = [op |-> "shufflePieces", before |-> before, mode |-> mode,
                        areaWidth |-> area[1], areaHeight |-> area[2],
                        pieceW |-> pw, pieceH |-> ph,
                        arg |-> call.arg, ret |-> call.ret]
            /\ UNCHANGED <<hookVars, settingVars, hintVars, seconds>>

RandomRotation ==
    \E mode \in EngineModes, r \in 0..15 :
        /\ last.op = "None"
        /\ last' = [op |-> "getRandomRotation", mode |-> mode,
                    ret |-> getRandomRotation(mode, r)]
        /\ UNCHANGED <<hookVars, settingVars, hintVars, seconds>>

\* An argument that may be left out of a call.
Given(v) == [given |-> TRUE, value |-> v]
NotGiven == [given |-> FALSE]

Rotations == {0, 90, 180, 270}

\* The thresholds given to isNearCorrectPosition, and none.
Thresholds == {Given(Px(15)), Given(Px(40)), NotGiven}

\* The last piece of the grid, laid at the offset d from its correct position
\* with rotation r.
PieceAt(ps, d, r) ==
    [ps[Len(ps)] EXCEPT !.currentX = ps[Len(ps)].correctX + d[1],
                        !.currentY = ps[Len(ps)].correctY + d[2],
                        !.rotation = r]

NearCorrectPosition ==
    \E threshold \in Thresholds, r \in Rotations :
        LET t == IF threshold.given THEN threshold.value ELSE Px(30)
        IN  \E dx, dy \in {-t, 1 - t, 0, t - 1, t} :
               /\ last.op = "Generate"
               /\ last' = [op |-> "isNearCorrectPosition",
                           piece |-> PieceAt(pieces, <<dx, dy>>, r),
                           threshold |-> threshold,
                           ret |-> isNearCorrectPositionCall(
                                      PieceAt(pieces, <<dx, dy>>, r), threshold)]
               /\ UNCHANGED <<hookVars, settingVars, hintVars, seconds>>

Snap ==
    \E d \in {<<0, 0>>, <<Px(50), -Px(7)>>}, r \in Rotations, placed \in BOOLEAN :
        LET before == [PieceAt(pieces, d, r) EXCEPT !.isPlaced = placed]
            call == snapPieceCall(before)
        IN  /\ last.op = "Generate"
            /\ last' = [op |-> "snapPiece", before |-> before,
                        arg |-> call.arg, ret |-> call.ret]
            /\ UNCHANGED <<hookVars, settingVars, hintVars, seconds>>

\* The collections given to isPuzzleComplete: the empty one, and the grid with
\* none, one, all but the last and all of its pieces placed.
Collections(ps) ==
    {<<>>} \cup {WithPlaced(ps, S) : S \in PlacedSets(ps) \cup {1..(Len(ps) - 1)}}

PuzzleComplete ==
    \E arg \in Collections(pieces) :
        /\ last.op = "Generate"
        /\ last' = [op |-> "isPuzzleComplete", arg |-> arg,
                    ret |-> isPuzzleComplete(arg)]
        /\ UNCHANGED <<hookVars, settingVars, hintVars, seconds>>

Steps == {Given(90), Given(180), Given(270), NotGiven}

RotateUtil ==
    \E d \in {<<0, 0>>, <<Px(50), -Px(7)>>}, r \in Rotations, placed \in BOOLEAN,
       step \in Steps :
        LET before == [PieceAt(pieces, d, r) EXCEPT !.isPlaced = placed]
            call == rotatePieceUtilCall(before, step)
        IN  /\ last.op = "Generate"
            /\ last' = [op |-> "rotatePiece", before |-> before, step |-> step,
                        arg |-> call.arg, ret |-> call.ret]
            /\ UNCHANGED <<hookVars, settingVars, hintVars, seconds>>

\* The names getDifficultySettings is called with: the four of the table,
\* and names that are not in it.
Names == {"easy", "medium", "hard", "expert", "custom", "Easy", ""}

DifficultySettings ==
    \E d \in Names :
        /\ last.op = "None"
        /\ last' = [op |-> "getDifficultySettings", arg |-> d,
                    ret |-> getDifficultySettings(d)]
        /\ UNCHANGED <<hookVars, settingVars, hintVars, seconds>>

\* App's render computes the settings of the session from its state.
Settings ==
    /\ last.op = "None"
    /\ last' = [op |-> "getSettings", ret |-> settings]
    /\ UNCHANGED <<hookVars, settingVars, hintVars, seconds>>

NextEngine == Generate \/ Shuffle \/ RandomRotation \/ NearCorrectPosition \/ Snap
                 \/ PuzzleComplete \/ RotateUtil \/ DifficultySettings
                 \/ Settings

SpecEngine == InitEngine /\ [][NextEngine]_vars

----------------------------------------------------------------------------
(* The engine functions no handler of the session calls *)

\* The aspect ratios given, each written as the division width / height:
\* those of the tests, 1 / 1 and 4 / 3, and others.
Ratios == {<<1, 1>>, <<4, 3>>, <<3, 4>>, <<16, 9>>, <<2, 1>>, <<1, 2>>, <<3, 2>>,
           <<2, 3>>, <<11, 24>>}

GridFromPieceCount ==
    \E totalPieces \in 1..MaxPieces, ratio \in Ratios :
        LET aspectRatio == Double(ratio[1], ratio[2])
        IN  /\ last.op = "None"
            /\ last' = [op |-> "getGridFromPieceCount",
                        totalPieces |-> totalPieces, ratio |-> ratio,
                        aspectRatio |-> aspectRatio,
                        ret |-> getGridFromPieceCount(totalPieces, aspectRatio)]
            /\ UNCHANGED <<hookVars, settingVars, hintVars, seconds>>

FormatTime ==
    \E totalSeconds \in 0..MaxTime :
        /\ last.op = "None"
        /\ last' = [op |-> "formatTime", totalSeconds |-> totalSeconds,
                    ret |-> formatTime(totalSeconds)]
        /\ UNCHANGED <<hookVars, settingVars, hintVars, seconds>>

NextUtil == GridFromPieceCount \/ FormatTime

SpecUtil == Init /\ [][NextUtil]_vars

----------------------------------------------------------------------------
(* components/PuzzleBoard.jsx: the board, with the lengths as the doubles   *)
(* the program computes, in pixels                                          *)

Zero == [i \in 1..Limbs |-> 0] \o <<>>

\* The double that is the integer n.
Number(n) == Quotient(n, 1).bits

\* The JS product k * x of an integer and a double.
Times(k, x) == RoundToDouble(Multiple(k, x), FALSE)

\* x / 16, exactly.
Sixteenth(x) ==
    [i \in 1..Limbs |-> (x[i] \div 16) + (IF i = 1 THEN 0
                                          ELSE (x[i - 1] % 16) * (Base \div 16))]
        \o <<>>

\* Math.random() * x, Math.random() being r sixteenths.
TimesRandom(r, x) == RoundToDouble(Multiple(r, Sixteenth(x)), FALSE)

\* Math.max(0, a - b).
Range(a, b) == IF Less(a, b) THEN Zero ELSE RoundToDouble(Minus(a, b), FALSE)

generatePiecesDouble(cols, rows, width, height) ==
    LET pieceW == Double(width, cols)
        pieceH == Double(height, rows)
    IN  [i \in 1..(rows * cols) |->
            LET row == (i - 1) \div cols
                col == (i - 1) % cols
            IN  [id |-> row * cols + col,
                 row |-> row,
                 col |-> col,
                 correctX |-> Times(col, pieceW),
                 correctY |-> Times(row, pieceH),
                 currentX |-> Zero,
                 currentY |-> Zero,
                 width |-> pieceW,
                 height |-> pieceH,
                 rotation |-> 0,
                 isPlaced |-> FALSE]] \o <<>>

shufflePiecesDouble(ps, areaWidth, areaHeight, pieceW, pieceH, mode, s) ==
    [i \in 1..Len(ps) |->
        LET base == (i - 1) * DrawsPerPiece(mode)
        IN  [ps[i] EXCEPT
                !.currentX = TimesRandom(Draw(s, base + 1), Range(areaWidth, pieceW)),
                !.currentY = TimesRandom(Draw(s, base + 2), Range(areaHeight, pieceH)),
                !.rotation = getRandomRotation(mode, Draw(s, base + 3)),
                !.isPlaced = FALSE]] \o <<>>

isNearCorrectPositionDouble(piece, threshold) ==
    IF piece.rotation # 0 THEN FALSE
    ELSE LET dx == AbsDifference(piece.currentX, piece.correctX)
             dy == AbsDifference(piece.currentY, piece.correctY)
         IN  Less(dx, threshold) /\ Less(dy, threshold)

movePieceUpdaterDouble(prev, pieceId, newX, newY, threshold) ==
    [i \in 1..Len(prev) |->
        LET p == prev[i]
            moved == [p EXCEPT !.currentX = newX, !.currentY = newY]
        IN  IF p.id # pieceId \/ p.isPlaced THEN p
            ELSE IF isNearCorrectPositionDouble(moved, threshold)
                 THEN snapPiece(moved)
                 ELSE moved] \o <<>>

rotatePieceUpdaterDouble(prev, pieceId, step, threshold) ==
    [i \in 1..Len(prev) |->
        LET p == prev[i]
            rotated == rotatePieceUtil(p, step)
        IN  IF p.id # pieceId \/ p.isPlaced THEN p
            ELSE IF isNearCorrectPositionDouble(rotated, threshold)
                 THEN snapPiece(rotated)
                 ELSE rotated] \o <<>>

movePieceCallDouble(h, cl, pieceId, newX, newY, threshold) ==
    IF cl.completed THEN h
    ELSE Commit(h, cl, movePieceUpdaterDouble(h.pieces, pieceId, newX, newY,
                                              threshold))

rotatePieceCallDouble(h, cl, pieceId, mode, threshold) ==
    IF cl.completed THEN h
    ELSE LET step == IF mode = "180" THEN 180 ELSE 90
         IN  Commit(h, cl, rotatePieceUpdaterDouble(h.pieces, pieceId, step,
                                                    threshold))

RECURSIVE forEachMoveDouble(_, _, _, _, _)
forEachMoveDouble(h, cl, reshuffled, k, threshold) ==
    IF k > Len(reshuffled) THEN h
    ELSE forEachMoveDouble(movePieceCallDouble(h, cl, reshuffled[k].id,
                                               reshuffled[k].currentX,
                                               reshuffled[k].currentY, threshold),
                           cl, reshuffled, k + 1, threshold)

\* The props of the board and the lengths its render computes.
pieceW == Double(PUZZLE_WIDTH, settings.cols)
pieceH == Double(PUZZLE_HEIGHT, settings.rows)
mostX == Range(Number(PUZZLE_WIDTH), pieceW)
mostY == Range(Number(PUZZLE_HEIGHT), pieceH)

MaxDrags == 1        \* cap of the moves and rotations made on the board

BoardGrids == {[difficulty |-> "custom", customCols |-> 3, customRows |-> 2]}

\* coords.x - offset.x of a pointer event: below 0, or the double abs.
Below == [neg |-> TRUE, abs |-> Number(1)]
At(n) == [neg |-> FALSE, abs |-> Number(n)]
PointerXs == {Below, At(270), At(PUZZLE_WIDTH)}
PointerYs == {Below, At(PUZZLE_HEIGHT)}

\* Math.max(0, Math.min(most, v)).
Clamp(most, v) ==
    IF v.neg THEN Zero ELSE IF Less(most, v.abs) THEN most ELSE v.abs

\* The ids findPieceAtCoords can return: those of the pieces not placed.
Draggable == {pieces[i].id : i \in {j \in 1..Len(pieces) : ~pieces[j].isPlaced}}

initPuzzleDouble(g, mode, s) ==
    LET st == getSettings(g.difficulty, g.customCols, g.customRows)
        generated == generatePiecesDouble(st.cols, st.rows, PUZZLE_WIDTH,
                                          PUZZLE_HEIGHT)
        shuffled == shufflePiecesDouble(generated, Number(PUZZLE_WIDTH),
                                        Number(PUZZLE_HEIGHT),
                                        Double(PUZZLE_WIDTH, st.cols),
                                        Double(PUZZLE_HEIGHT, st.rows), mode, s)
    IN  /\ difficulty' = g.difficulty
        /\ customCols' = g.customCols
        /\ customRows' = g.customRows
        /\ rotationMode' = mode
        /\ pieces' = shuffled
        /\ moveCount' = 0
        /\ completed' = FALSE
        /\ hasStarted' = FALSE
        /\ firstMoveFired' = 0
        /\ completeFired' = 0
        /\ last' = [op |-> "Initialize", hit |-> "none", gate |-> completed,
                    n |-> 0]
        /\ UNCHANGED hintVars

\* A pointer down on a piece and a pointer move while it is dragged.
handlePointerMove(pieceId, x, y) ==
    /\ ~completed
    /\ moveCount < MaxDrags
    /\ pieceId \in Draggable
    /\ SetHook(movePieceCallDouble(Hook, Closure, pieceId, Clamp(mostX, x),
                                   Clamp(mostY, y),
                                   Number(settings.snapThreshold)))
    /\ last' = [op |-> "Move", hit |-> Hit(pieces, pieceId), gate |-> completed,
                n |-> 1]
    /\ UNCHANGED <<settingVars, hintVars, seconds>>

handleContextMenu(pieceId) ==
    /\ ~(completed \/ rotationMode = "none")
    /\ moveCount < MaxDrags
    /\ pieceId \in Draggable
    /\ SetHook(rotatePieceCallDouble(Hook, Closure, pieceId, rotationMode,
                                     Number(settings.snapThreshold)))
    /\ last' = [op |-> "Rotate", hit |-> Hit(pieces, pieceId), gate |-> completed,
                n |-> 1]
    /\ UNCHANGED <<settingVars, hintVars, seconds>>

handleShuffleDouble(s) ==
    LET reshuffled == shufflePiecesDouble(Unplaced(pieces), Number(PUZZLE_WIDTH),
                                          Number(PUZZLE_HEIGHT), pieceW, pieceH,
                                          rotationMode, s)
    IN  /\ Len(pieces) > 0
        /\ moveCount <= MaxDrags
        /\ IF completed
           THEN UNCHANGED hookVars
           ELSE SetHook(forEachMoveDouble(Hook, Closure, reshuffled, 1,
                                          Number(settings.snapThreshold)))
        /\ last' = [op |-> "Reshuffle", hit |-> "none", gate |-> completed,
                    n |-> IF completed THEN 0 ELSE Len(reshuffled)]
        /\ UNCHANGED <<settingVars, hintVars, seconds>>

InitializeBoard == \E g \in BoardGrids, mode \in RotationModes, s \in Streams :
                      reset /\ initPuzzleDouble(g, mode, s)

PointerMove == \E pieceId \in Draggable, x \in PointerXs, y \in PointerYs :
                  handlePointerMove(pieceId, x, y)

ContextMenu == \E pieceId \in Draggable : handleContextMenu(pieceId)

ReshuffleBoard == \E s \in Streams : handleShuffleDouble(s)

NextBoard == InitializeBoard \/ PointerMove \/ ContextMenu \/ ReshuffleBoard

SpecBoard == Init /\ [][NextBoard]_vars

----------------------------------------------------------------------------
(* Properties *)

Placed(ps) == {i \in 1..Len(ps) : ps[i].isPlaced}

\* The piece a snap leaves, field by field.
Home(p) == [id |-> p.id, row |-> p.row, col |-> p.col,
            correctX |-> p.correctX, correctY |-> p.correctY,
            currentX |-> p.correctX, currentY |-> p.correctY,
            width |-> p.width, height |-> p.height,
            rotation |-> 0, isPlaced |-> TRUE]

\* The piece with position (x, y) and rotation r, unplaced.
Loose(p, x, y, r) == [id |-> p.id, row |-> p.row, col |-> p.col,
                      correctX |-> p.correctX, correctY |-> p.correctY,
                      currentX |-> x, currentY |-> y,
                      width |-> p.width, height |-> p.height,
                      rotation |-> r, isPlaced |-> FALSE]

Within(p, x, y, t) ==
    /\ x - p.correctX < t /\ p.correctX - x < t
    /\ y - p.correctY < t /\ p.correctY - y < t

\* C1: every placed piece has rotation 0 and sits at its correct position.
C1_PlacedIsHome ==
    \A i \in 1..Len(pieces) :
        pieces[i].isPlaced =>
            /\ pieces[i].rotation = 0
            /\ pieces[i].currentX = pieces[i].correctX
            /\ pieces[i].currentY = pieces[i].correctY

C1_Witness ==
    /\ last.op \in {"Move", "Rotate", "Reshuffle"}
    /\ Placed(pieces) # {}
    /\ Placed(pieces) # 1..Len(pieces)

\* C2: until the next Initialize a placed piece keeps all its fields, whatever
\* command is handled, and no piece is added or removed.
C2_PlacedStays ==
    [][(pieces' # pieces /\ last'.op # "Initialize") =>
          /\ Len(pieces') = Len(pieces)
          /\ \A i \in Placed(pieces) : pieces'[i] = pieces[i]]_vars

C2_Witness ==
    /\ last.op \in {"Move", "Rotate"}
    /\ last.hit = "placed"
    /\ ~last.gate

\* C3: in a session the completion notification fires exactly once, at the
\* command that places the last unplaced piece, and the completion flag is set
\* by that command and no other.
C3_CompleteOnce ==
    /\ [](completeFired <= 1 /\ (completed <=> completeFired = 1))
    /\ [][last'.op # "Initialize" =>
            /\ (completeFired' # completeFired \/ completed' # completed) =>
                  /\ Placed(pieces) # 1..Len(pieces)
                  /\ Len(pieces') > 0
                  /\ Placed(pieces') = 1..Len(pieces')
                  /\ completeFired' = completeFired + 1
                  /\ ~completed
                  /\ completed'
            /\ (pieces' # pieces /\ Len(pieces') > 0
                  /\ Placed(pieces') = 1..Len(pieces')) =>
                  completeFired' = completeFired + 1]_vars

C3_Witness ==
    /\ last.op = "Reshuffle"
    /\ last.n = 2
    /\ completed
    /\ completeFired = 1

\* C4: in a session the first-move notification fires exactly once, on the
\* first Move or Rotate after Initialize, the Moves of a Reshuffle included.
C4_FirstMoveOnce ==
    /\ firstMoveFired <= 1
    /\ moveCount > 0 => firstMoveFired = 1

\* C5: the completion flag is set if and only if the collection is non-empty
\* and every piece of it is placed.
C5_CompletedIffAllPlaced ==
    completed <=> (Len(pieces) > 0 /\ \A i \in 1..Len(pieces) : pieces[i].isPlaced)

C5_Witness ==
    /\ completed
    /\ last.op \in {"Move", "Rotate", "Reshuffle"}
    /\ ~last.gate

\* C6: a Move or Rotate given while Completed changes neither the pieces, the
\* move counter, the completion flag nor the first-move latch, and fires no
\* notification.
C6_NoOpWhenCompleted ==
    [][(completed /\ last'.op \in {"Move", "Rotate"} /\ (Move \/ Rotate))
          => UNCHANGED hookVars]_vars

C6_Witness ==
    /\ last.op \in {"Move", "Rotate"}
    /\ last.gate
    /\ completed

\* C7: a Move or Rotate given while not Completed adds exactly 1 to the move
\* counter, whatever its id matches; the counter decreases only by an
\* Initialize, which sets it to 0.
C7_CountsEveryCommand ==
    [][/\ (~completed /\ last'.op \in {"Move", "Rotate"} /\ (Move \/ Rotate))
             => moveCount' = moveCount + 1
       /\ moveCount' < moveCount => (last'.op = "Initialize" /\ moveCount' = 0)]_vars

C7_Witness ==
    /\ last.op \in {"Move", "Rotate"}
    /\ last.hit = "placed"
    /\ ~last.gate
    /\ moveCount >= 2

\* C8: a Move or Rotate whose id is the id of no piece leaves the pieces and
\* the completion flag as they were.
C8_UnknownIdNoOp ==
    [][\A pieceId \in PieceIds :
          (/\ last'.op \in {"Move", "Rotate"}
           /\ Hit(pieces, pieceId) = "none"
           /\ \/ rotatePiece(pieceId)
              \/ \E xy \in MoveTargets(pieces, pieceId) :
                    movePiece(pieceId, xy[1], xy[2]))
          => UNCHANGED <<pieces, completed>>]_vars

C8_Witness ==
    /\ last.op \in {"Move", "Rotate"}
    /\ last.hit = "none"
    /\ ~last.gate
    /\ Len(pieces) > 0
    /\ Placed(pieces) = {}

\* C9: a Move of an unplaced piece, while not Completed, snaps it when its
\* rotation is 0 and both offsets of the target from the correct position are
\* below the threshold, and otherwise leaves it unplaced at the target with its
\* rotation; no other piece changes.  On a fresh 3x3 grid one snapping Move
\* leaves one piece placed, the flag false and the counter 1.
C9_MoveResult ==
    [][\A pieceId \in PieceIds : \A xy \in MoveTargets(pieces, pieceId) :
          (/\ ~completed
           /\ last'.op = "Move"
           /\ Hit(pieces, pieceId) = "unplaced"
           /\ movePiece(pieceId, xy[1], xy[2]))
          =>
          /\ Len(pieces') = Len(pieces)
          /\ \A i \in 1..Len(pieces) :
                LET p == pieces[i]
                    snaps == p.rotation = 0 /\ Within(p, xy[1], xy[2], snapThreshold)
                IN  /\ pieces'[i] = IF p.id # pieceId THEN p
                                    ELSE IF snaps THEN Home(p)
                                    ELSE Loose(p, xy[1], xy[2], p.rotation)
                    /\ (/\ p.id = pieceId /\ snaps
                        /\ settings.cols = 3 /\ settings.rows = 3
                        /\ last.op = "Initialize")
                       => /\ Cardinality(Placed(pieces')) = 1
                          /\ ~completed'
                          /\ moveCount' = 1]_vars

C9_Witness ==
    /\ Len(pieces) = 9
    /\ last.op = "Move"
    /\ last.hit = "unplaced"
    /\ Cardinality(Placed(pieces)) = 1
    /\ moveCount = 1
    /\ ~completed

\* C10: a Rotate of an unplaced piece, while not Completed, adds 90 (mode "90")
\* or 180 (mode "180") to its rotation modulo 360 and keeps its position; the
\* piece is snapped exactly when the new rotation is 0 and both offsets are
\* below the threshold; no other piece changes.
C10_RotateResult ==
    [][\A pieceId \in PieceIds :
          (/\ ~completed
           /\ last'.op = "Rotate"
           /\ Hit(pieces, pieceId) = "unplaced"
           /\ rotationMode \in {"90", "180"}
           /\ rotatePiece(pieceId))
          =>
          /\ Len(pieces') = Len(pieces)
          /\ \A i \in 1..Len(pieces) :
                LET p == pieces[i]
                    r == (p.rotation + (IF rotationMode = "90" THEN 90 ELSE 180)) % 360
                    snaps == r = 0 /\ Within(p, p.currentX, p.currentY, snapThreshold)
                IN  pieces'[i] = IF p.id # pieceId THEN p
                                 ELSE IF snaps THEN Home(p)
                                 ELSE Loose(p, p.currentX, p.currentY, r)]_vars

C10_Witness ==
    /\ last.op = "Rotate"
    /\ last.hit = "unplaced"
    /\ ~last.gate
    /\ rotationMode = "180"
    /\ completed

\* C11: in rotation mode "none" a Rotate leaves every field of every piece as
\* it was.
C11_RotateNoneNoOp ==
    [][(rotationMode = "none" /\ last'.op = "Rotate" /\ Rotate)
          => pieces' = pieces]_vars

\* C12: an Initialize, whatever the state before it, leaves columns * rows
\* pieces, none placed, the move counter 0, the completion flag and the
\* first-move latch cleared; the first Move or Rotate after it fires the
\* first-move notification.
C12_InitializeResets ==
    /\ last.op = "Initialize" =>
          /\ Len(pieces) = settings.cols * settings.rows
          /\ Len(pieces) > 0
          /\ \A i \in 1..Len(pieces) : ~pieces[i].isPlaced
          /\ moveCount = 0
          /\ ~completed
          /\ ~hasStarted
          /\ firstMoveFired = 0
          /\ completeFired = 0
    /\ (last.op \in {"Move", "Rotate"} /\ ~last.gate /\ moveCount = 1) =>
          (hasStarted /\ firstMoveFired = 1)

C12_Witness ==
    /\ last.op = "Initialize"
    /\ last.gate

\* C13: after an Initialize the collection holds columns * rows pieces in the
\* order of creation, the piece at index i has id i (counting from 0), and its
\* row, col, correct position, width and height are those given at creation.
C13_PiecesFixed ==
    Len(pieces) > 0 =>
        LET cols == settings.cols
            rows == settings.rows
        IN  /\ Len(pieces) = cols * rows
            /\ {pieces[i].id : i \in 1..Len(pieces)} = 0..(cols * rows - 1)
            /\ \A i \in 1..Len(pieces) :
                  LET p == pieces[i]
                  IN  /\ p.id = i - 1
                      /\ p.row = (i - 1) \div cols
                      /\ p.col = (i - 1) % cols
                      /\ p.correctX = p.col * (imageWidth \div cols)
                      /\ p.correctY = p.row * (imageHeight \div rows)
                      /\ p.width = imageWidth \div cols
                      /\ p.height = imageHeight \div rows

C13_Witness ==
    /\ last.op = "Reshuffle"
    /\ last.n = 1
    /\ moveCount >= 3
    /\ Placed(pieces) = {1}

\* C14: a Reshuffle leaves every placed piece as it was, and a Reshuffle given
\* while Completed changes neither the pieces, the move counter nor the flags.
C14_ReshuffleFrame ==
    [][(last'.op = "Reshuffle" /\ Reshuffle) =>
          /\ Len(pieces') = Len(pieces)
          /\ \A i \in Placed(pieces) : pieces'[i] = pieces[i]
          /\ completed => UNCHANGED hookVars]_vars

\* One piece was placed and the other one scattered.
C14_Witness ==
    /\ last.op = "Reshuffle"
    /\ ~last.gate
    /\ last.n = 1
    /\ Len(pieces) = 2
    /\ ~completed

\* C15: a Reshuffle given in a Playing state places no piece, leaves the
\* completion flag false and fires no completion notification.
C15_ReshuffleNeverCompletes ==
    [][(last'.op = "Reshuffle" /\ ~completed /\ Len(pieces) > 0 /\ Reshuffle) =>
          /\ Placed(pieces') = Placed(pieces)
          /\ ~completed'
          /\ completeFired' = completeFired]_vars

\* C16: a Hint gives an unplaced piece of the collection, or nothing when no
\* piece is unplaced, and changes neither the pieces, the move counter, the
\* flags nor the notifications fired.
C16_HintReadsOnly ==
    [][Hint =>
          /\ UNCHANGED hookVars
          /\ IF \A i \in 1..Len(pieces) : pieces[i].isPlaced
             THEN UNCHANGED hintVars
             ELSE \E i \in 1..Len(pieces) :
                     /\ pieces[i].id = hintPiece'
                     /\ ~pieces[i].isPlaced]_vars

C16_Witness ==
    /\ hintPiece # NoPiece.id
    /\ hintTimers > 0
    /\ Placed(pieces) # {}
    /\ hintPiece + 1 \notin Placed(pieces)

\* C17: a Reset cancels the auto-clear timeouts that are pending, so that none
\* scheduled before it is left to fire after it.
C17_ResetCancelsTimeout ==
    [][handleReset => hintTimers' = 0]_vars

\* C18: the timer is not running before the first Move or Rotate of a session
\* nor in a Completed state; it is started only by the first-move notification
\* and stopped only by the completion notification or a reset; its seconds
\* change only by a tick of +1 while it runs or by a reset to 0; after Reset it
\* is stopped and reads 0.
C18_Stopwatch ==
    /\ []((moveCount = 0 \/ completed) => ~isRunning)
    /\ [][/\ (seconds' # seconds) =>
                ((isRunning /\ seconds' = seconds + 1 /\ isRunning')
                    \/ (seconds' = 0 /\ ~isRunning'))
          /\ (isRunning' /\ ~isRunning) => (firstMoveFired' > firstMoveFired)
          /\ (firstMoveFired' > firstMoveFired /\ ~completed') => isRunning'
          /\ (isRunning /\ ~isRunning') =>
                (completeFired' > completeFired \/ seconds' = 0)
          /\ handleReset => (~isRunning' /\ seconds' = 0)]_vars

\* Started by a first move, it ticked and was stopped by the completion.
C18_Witness ==
    /\ completed
    /\ ~isRunning
    /\ seconds > 0
    /\ last.op \in {"Move", "Rotate", "Reshuffle"}
    /\ ~last.gate

\* C19: the Moves a Reshuffle issues from one handler are applied one after
\* the other, each to the pieces the one before left: afterwards every piece
\* that was unplaced is at its scattered position, or snapped when that
\* position is within the threshold of its correct one, every placed piece is
\* as it was, and the move counter has grown by the number of Moves.
C19_MovesInSequence ==
    [][\A s \in Streams :
          (last'.op = "Reshuffle" /\ ~completed /\ handleShuffle(s)) =>
             LET pw == imageWidth \div settings.cols
                 ph == imageHeight \div settings.rows
                 reshuffled == shufflePieces(Unplaced(pieces), imageWidth,
                                             imageHeight, pw, ph, rotationMode, s)
             IN  /\ Len(pieces') = Len(pieces)
                 /\ moveCount' = moveCount + Len(reshuffled)
                 /\ \A i \in Placed(pieces) : pieces'[i] = pieces[i]
                 /\ \A k \in 1..Len(reshuffled) :
                       LET q == reshuffled[k]
                           p == pieces[q.id + 1]
                           snaps == /\ p.rotation = 0
                                    /\ Within(p, q.currentX, q.currentY, snapThreshold)
                       IN  pieces'[q.id + 1] =
                              IF snaps THEN Home(p)
                              ELSE Loose(p, q.currentX, q.currentY, p.rotation)]_vars

\* Two Moves from one Reshuffle, one of which snapped its piece.
C19_Witness ==
    /\ last.op = "Reshuffle"
    /\ ~last.gate
    /\ last.n = 2
    /\ Cardinality(Placed(pieces)) = 1

\* C20: generatePieces(columns, rows, W, H) gives columns * rows pieces whose
\* ids differ from one another and are the numbers 0 .. columns * rows - 1.
C20_GenerateIds ==
    last.op = "Generate" =>
        LET n == customCols * customRows
        IN  /\ Len(pieces) = n
            /\ \A i, j \in 1..Len(pieces) : i # j => pieces[i].id # pieces[j].id
            /\ {pieces[i].id : i \in 1..Len(pieces)} = 0..(n - 1)

C20_Witness ==
    /\ last.op = "Generate"
    /\ customCols = 3
    /\ customRows = 2
    /\ Len(pieces) = 6

\* C21: generatePieces(c, r, W, H) gives the pieces in row-major order: the
\* piece at index i (from 0) has row i div c, col i mod c and id row * c + col,
\* width W / c, height H / r, correct position (col * (W / c), row * (H / r)),
\* current position (0, 0), rotation 0 and isPlaced false.
C21_GenerateGeometry ==
    last.op = "Generate" =>
        LET c == customCols
            r == customRows
        IN  \A i \in 1..Len(pieces) :
               LET p == pieces[i]
               IN  /\ p.row = (i - 1) \div c
                   /\ p.col = (i - 1) % c
                   /\ p.id = p.row * c + p.col
                   /\ p.width * c = imageWidth
                   /\ p.height * r = imageHeight
                   /\ p.correctX * c = p.col * imageWidth
                   /\ p.correctY * r = p.row * imageHeight
                   /\ p.currentX = 0
                   /\ p.currentY = 0
                   /\ p.rotation = 0
                   /\ p.isPlaced = FALSE

C21_Witness ==
    /\ last.op = "Generate"
    /\ customCols = 7
    /\ customRows = 3
    /\ pieces[21].row = 2
    /\ pieces[21].col = 6

\* C22: shufflePieces returns as many pieces as it was given, with the same
\* ids at the same indices, none of them placed, whatever the input pieces
\* were, and each at a position within [0, max(0, areaWidth - pieceWidth)] x
\* [0, max(0, areaHeight - pieceHeight)].
C22_ShuffleResult ==
    last.op = "shufflePieces" =>
        LET maxX == IF last.areaWidth > last.pieceW
                    THEN last.areaWidth - last.pieceW ELSE 0
            maxY == IF last.areaHeight > last.pieceH
                    THEN last.areaHeight - last.pieceH ELSE 0
        IN  /\ Len(last.ret) = Len(last.before)
            /\ \A i \in 1..Len(last.ret) :
                  /\ last.ret[i].id = last.before[i].id
                  /\ last.ret[i].isPlaced = FALSE
                  /\ 0 <= last.ret[i].currentX /\ last.ret[i].currentX <= maxX
                  /\ 0 <= last.ret[i].currentY /\ last.ret[i].currentY <= maxY

\* Placed pieces scattered in an area smaller than a piece.
C22_Witness ==
    /\ last.op = "shufflePieces"
    /\ Len(last.before) = 6
    /\ \A i \in 1..6 : last.before[i].isPlaced
    /\ last.areaWidth < last.pieceW

\* The rotations a mode may give.
RotationsOf(mode) ==
    IF mode = "90" THEN {0, 90, 180, 270}
    ELSE IF mode = "180" THEN {0, 180}
    ELSE {0}

\* C23: the rotation getRandomRotation gives, and shufflePieces assigns, is
\* one of 0, 90, 180, 270 in mode "90", one of 0, 180 in mode "180", and 0 in
\* mode "none" and in every other mode.
C23_RotationByMode ==
    /\ last.op = "getRandomRotation" => last.ret \in RotationsOf(last.mode)
    /\ last.op = "shufflePieces" =>
          \A i \in 1..Len(last.ret) : last.ret[i].rotation \in RotationsOf(last.mode)

C23_Witness ==
    /\ last.op = "getRandomRotation"
    /\ last.mode = "90"
    /\ last.ret = 90

\* The fields of a piece that are given at creation.
Created(p) == [id |-> p.id, row |-> p.row, col |-> p.col,
               correctX |-> p.correctX, correctY |-> p.correctY,
               width |-> p.width, height |-> p.height]

\* C24: shufflePieces leaves the pieces it was given as they were (placed
\* flag, position, rotation), and each piece it returns has the id, row, col,
\* correct position, width and height of the input piece at its index, and
\* no field the input piece has not.
C24_ShuffleFrame ==
    last.op = "shufflePieces" =>
        /\ last.arg = last.before
        /\ Len(last.ret) = Len(last.before)
        /\ \A i \in 1..Len(last.ret) :
              /\ Created(last.ret[i]) = Created(last.before[i])
              /\ DOMAIN last.ret[i] = DOMAIN last.before[i]

\* A placed piece given, and returned unplaced elsewhere and rotated.
C24_Witness ==
    /\ last.op = "shufflePieces"
    /\ Len(last.before) >= 2
    /\ last.before[2].isPlaced
    /\ last.ret[2].currentX # last.before[2].currentX
    /\ last.ret[2].rotation # 0

\* C25: isNearCorrectPosition(piece, threshold) holds exactly when the
\* rotation of the piece is 0 and both offsets of its position from the correct
\* one are below the threshold, strictly; the threshold is 30 when none is
\* given; a rotation other than 0 gives false wherever the piece lies.
C25_NearCorrectPosition ==
    last.op = "isNearCorrectPosition" =>
        LET p == last.piece
            t == IF last.threshold.given THEN last.threshold.value ELSE 30 * Px(1)
            dx == p.currentX - p.correctX
            dy == p.currentY - p.correctY
        IN  /\ last.ret = (p.rotation = 0 /\ -t < dx /\ dx < t /\ -t < dy /\ dy < t)
            /\ (dx = t \/ dx = -t \/ dy = t \/ dy = -t) => ~last.ret
            /\ p.rotation # 0 => ~last.ret

\* No threshold given, and an offset of exactly 30 pixels on one axis.
C25_Witness ==
    /\ last.op = "isNearCorrectPosition"
    /\ ~last.threshold.given
    /\ last.piece.rotation = 0
    /\ last.piece.currentX - last.piece.correctX = 30 * Px(1)
    /\ last.piece.currentY = last.piece.correctY
    /\ ~last.ret

\* C26: snapPiece(piece) returns a piece at the correct position of the input,
\* with rotation 0 and isPlaced true and every other field as in the input, and
\* leaves the piece it was given as it was.
C26_SnapResult ==
    last.op = "snapPiece" =>
        /\ last.ret = Home(last.before)
        /\ Created(last.ret) = Created(last.before)
        /\ last.arg = last.before

\* A rotated piece away from its correct position.
C26_Witness ==
    /\ last.op = "snapPiece"
    /\ last.before.rotation = 270
    /\ last.before.currentX # last.before.correctX
    /\ ~last.before.isPlaced
    /\ last.ret.isPlaced

\* C27: isPuzzleComplete(pieces) holds exactly when the collection is not
\* empty and none of its pieces is unplaced; it is false of the empty
\* collection and of a collection with an unplaced piece.
C27_PuzzleComplete ==
    last.op = "isPuzzleComplete" =>
        LET unplaced == {i \in 1..Len(last.arg) : ~last.arg[i].isPlaced}
        IN  /\ last.ret = (last.arg # <<>> /\ unplaced = {})
            /\ last.arg = <<>> => ~last.ret
            /\ unplaced # {} => ~last.ret

\* Every piece placed but the last one.
C27_Witness ==
    /\ last.op = "isPuzzleComplete"
    /\ Len(last.arg) = 12
    /\ \A i \in 1..11 : last.arg[i].isPlaced
    /\ ~last.arg[12].isPlaced
    /\ ~last.ret

\* C28: rotatePiece(piece, step) returns a copy whose rotation is
\* (piece.rotation + step) mod 360 and whose other fields are those of the
\* piece, step being 90 when left out, and does not modify the piece; from a
\* rotation in {0, 90, 180, 270} a step of 90 or 180 gives a rotation in that
\* set, 270 + 90 giving 0 and 90 + 180 giving 270.
C28_RotatePiece ==
    last.op = "rotatePiece" =>
        LET step == IF last.step.given THEN last.step.value ELSE 90
            from == last.before.rotation
        IN  /\ last.ret.rotation = (from + step) % 360
            /\ [last.ret EXCEPT !.rotation = from] = last.before
            /\ last.arg = last.before
            /\ (from \in Rotations /\ step \in {90, 180}) =>
                    last.ret.rotation \in Rotations
            /\ (from = 270 /\ step = 90) => last.ret.rotation = 0
            /\ (from = 90 /\ step = 180) => last.ret.rotation = 270

\* A loose piece at 270 degrees rotated with the step left out.
C28_Witness ==
    /\ last.op = "rotatePiece"
    /\ ~last.step.given
    /\ last.before.rotation = 270
    /\ last.before.currentX # last.before.correctX
    /\ last.ret.rotation = 0

\* C29: getDifficultySettings gives (3, 3, 40) for "easy", (5, 4, 30) for
\* "medium", (8, 6, 20) for "hard", (12, 9, 15) for "expert" and the default
\* (4, 3, 30) for every other name; it returns settings for every name.
C29_DifficultySettings ==
    last.op = "getDifficultySettings" =>
        LET entry(c, r, t) == [cols |-> c, rows |-> r, snapThreshold |-> t]
        IN  /\ last.arg = "easy" => last.ret = entry(3, 3, 40)
            /\ last.arg = "medium" => last.ret = entry(5, 4, 30)
            /\ last.arg = "hard" => last.ret = entry(8, 6, 20)
            /\ last.arg = "expert" => last.ret = entry(12, 9, 15)
            /\ last.arg \notin {"easy", "medium", "hard", "expert"} =>
                    last.ret = entry(4, 3, 30)
            /\ DOMAIN last.ret = {"cols", "rows", "snapThreshold"}

\* A name that is not in the table.
C29_Witness ==
    /\ last.op = "getDifficultySettings"
    /\ last.arg = "Easy"
    /\ last.ret.cols = 4

\* C30: for a custom grid of n = columns * rows pieces the snap threshold of
\* the session is 40 when n <= 12, 30 when 12 < n <= 30, 20 when 30 < n <= 60
\* and 15 when n > 60, so a grid of at least as many pieces never has a larger
\* threshold; the columns and rows are the custom values.
C30_CustomThreshold ==
    (last.op = "getSettings" /\ difficulty = "custom") =>
        LET n == customCols * customRows
        IN  /\ last.ret.cols = customCols
            /\ last.ret.rows = customRows
            /\ n <= 12 => last.ret.snapThreshold = 40
            /\ (12 < n /\ n <= 30) => last.ret.snapThreshold = 30
            /\ (30 < n /\ n <= 60) => last.ret.snapThreshold = 20
            /\ n > 60 => last.ret.snapThreshold = 15
            /\ \A cc \in 1..MaxGrid, cr \in 1..MaxGrid :
                   cc * cr >= n =>
                       getSettings("custom", cc, cr).snapThreshold
                           <= last.ret.snapThreshold

\* A custom grid of exactly 60 pieces.
C30_Witness ==
    /\ last.op = "getSettings"
    /\ difficulty = "custom"
    /\ customCols * customRows = 60
    /\ last.ret.snapThreshold = 20

\* The rational p / q against the double b: -1 when less, 0 when equal,
\* 1 when greater.
CompareRational(p, q, b) ==
    LET t == Quotient(p, q)
    IN  IF Less(t.bits, b) THEN -1
        ELSE IF Less(b, t.bits) \/ t.inexact THEN 1 ELSE 0

\* |c1 / r1 - a| < |c2 / r2 - a| in exact arithmetic, a being a double.
Closer(c1, r1, c2, r2, a) ==
    LET s1 == CompareRational(c1, r1, a)
        s2 == CompareRational(c2, r2, a)
        twice == Multiple(2, a)
        sum == CompareRational(c1 * r2 + c2 * r1, r1 * r2, twice)
    IN  IF s2 = 0 THEN FALSE
        ELSE IF s1 = 0 THEN TRUE
        ELSE IF s1 = 1 /\ s2 = 1 THEN c1 * r2 < c2 * r1
        ELSE IF s1 = -1 /\ s2 = -1 THEN c1 * r2 > c2 * r1
        ELSE IF s1 = 1 THEN sum = -1
        ELSE sum = 1

\* C31: getGridFromPieceCount(totalPieces, aspectRatio) returns
\* (round(totalPieces / r), r) for the smallest r of 1..totalPieces at which
\* |round(totalPieces / r) / r - aspectRatio| is least; both results are at
\* least 1, and n * n pieces at aspect ratio 1 give (n, n).
C31_GridFromPieceCount ==
    last.op = "getGridFromPieceCount" =>
        LET n == last.totalPieces
            a == last.aspectRatio
            c(r) == (2 * n + r) \div (2 * r)
            least(r) == \A q \in 1..n : ~Closer(c(q), q, c(r), r, a)
            rstar == CHOOSE r \in 1..n : least(r) /\ \A q \in 1..(r - 1) : ~least(q)
        IN  /\ last.ret = [cols |-> c(rstar), rows |-> rstar]
            /\ last.ret.cols >= 1
            /\ last.ret.rows >= 1
            /\ \A k \in 1..n : (last.ratio = <<1, 1>> /\ n = k * k) =>
                                     last.ret = [cols |-> k, rows |-> k]

\* The number a string of decimal digits writes, -1 if it is not one.
RECURSIVE Decimal(_)
Decimal(str) ==
    IF str = <<>> THEN -1
    ELSE LET d == {k \in 0..9 : DigitChars[k + 1] = str[Len(str)]}
             front == SubSeq(str, 1, Len(str) - 1)
         IN  IF d = {} THEN -1
             ELSE IF front = <<>> THEN CHOOSE k \in d : TRUE
             ELSE IF Decimal(front) = -1 THEN -1
             ELSE 10 * Decimal(front) + (CHOOSE k \in d : TRUE)

\* C32: for whole seconds s >= 0, formatTime(s) is the minutes floor(s / 60)
\* and the seconds s mod 60 with ':' between them, each in decimal and
\* padded with zeros to two digits at least; the seconds field is 00..59 and
\* the minutes field goes beyond 59 (3661 gives "61:01").
C32_FormatTime ==
    last.op = "formatTime" =>
        LET s == last.totalSeconds
            colons == {i \in 1..Len(last.ret) : last.ret[i] = ":"}
            colon == CHOOSE i \in colons : TRUE
            minutes == SubSeq(last.ret, 1, colon - 1)
            secs == SubSeq(last.ret, colon + 1, Len(last.ret))
        IN  /\ Cardinality(colons) = 1
            /\ Decimal(minutes) = s \div 60
            /\ Decimal(secs) = s % 60
            /\ Len(secs) = 2
            /\ Len(minutes) = IF s \div 60 < 100 THEN 2 ELSE 3
            /\ Decimal(secs) \in 0..59
            /\ s = 3661 => last.ret = <<"6", "1", ":", "0", "1">>

\* More than 59 minutes, and seconds that need the padding.
C32_Witness ==
    /\ last.op = "formatTime"
    /\ last.totalSeconds = 3661
    /\ last.ret = <<"6", "1", ":", "0", "1">>

\* C33: in every state the session reaches, the rotation of every piece is
\* one of 0, 90, 180, 270, and in rotation mode "180" it is 0 or 180.
C33_RotationsInRange ==
    \A i \in 1..Len(pieces) :
        /\ pieces[i].rotation \in Rotations
        /\ rotationMode = "180" => pieces[i].rotation \in {0, 180}

\* In mode "180", a Rotate has turned a loose piece, and a piece lies at 180.
C33_Witness ==
    /\ rotationMode = "180"
    /\ last.op = "Rotate"
    /\ last.hit = "unplaced"
    /\ ~last.gate
    /\ \E i \in 1..Len(pieces) : pieces[i].rotation = 180 /\ ~pieces[i].isPlaced

\* The values a callback of the render of hook state h closes over.
ClosureOf(h) == [completed |-> h.completed, hasStarted |-> h.hasStarted]

\* k Rotate commands on a piece, each its own handler.
RECURSIVE RotateTimes(_, _, _)
RotateTimes(h, pieceId, k) ==
    IF k = 0 THEN h
    ELSE RotateTimes(rotatePieceCall(h, ClosureOf(h), pieceId, rotationMode,
                                     snapThreshold),
                     pieceId, k - 1)

\* k Rotate commands on the piece at i, then one Move of it to its correct
\* position.
PlaceOne(h, i, k) ==
    LET p == h.pieces[i]
        turned == RotateTimes(h, p.id, k)
    IN  movePieceCall(turned, ClosureOf(turned), p.id, p.correctX, p.correctY,
                      snapThreshold)

\* The Rotate commands the claim allows for one piece.
RotatesAllowed(mode) == IF mode = "90" THEN 3 ELSE IF mode = "180" THEN 1 ELSE 0

\* Placing the unplaced pieces from the one at i on, one after the other,
\* ends in Completed.
RECURSIVE Solvable(_, _)
Solvable(h, i) ==
    IF i > Len(h.pieces) THEN h.completed
    ELSE IF h.pieces[i].isPlaced THEN Solvable(h, i + 1)
    ELSE \E k \in 0..RotatesAllowed(rotationMode) :
             /\ PlaceOne(h, i, k).pieces[i].isPlaced
             /\ Solvable(PlaceOne(h, i, k), i + 1)

\* C34: from every Playing state the session reaches, in each rotation mode,
\* Move and Rotate commands lead to Completed: every unplaced piece is placed
\* by at most 3 Rotate commands (1 in mode "180", 0 in mode "none") and one
\* Move to its correct position.
C34_Solvable ==
    (pieces # <<>> /\ ~completed) =>
        /\ Solvable(Hook, 1)
        /\ \A i \in 1..Len(pieces) :
               ~pieces[i].isPlaced =>
                   \E k \in 0..RotatesAllowed(rotationMode) :
                       PlaceOne(Hook, i, k).pieces[i].isPlaced

\* C35: a Reshuffle leaves the rotation of every piece as it was, in every
\* rotation mode: of what shufflePieces draws, only the positions are applied.
C35_ReshuffleKeepsRotation ==
    [][(last'.op = "Reshuffle" /\ Reshuffle) =>
          /\ Len(pieces') = Len(pieces)
          /\ \A i \in 1..Len(pieces) :
                 /\ pieces'[i].rotation = pieces[i].rotation
                 /\ Created(pieces'[i]) = Created(pieces[i])]_vars

\* In mode "90" a Reshuffle has scattered a piece that lies at 90 or 180
\* degrees, which the draws 0 and 15/16 never give.
C35_Witness ==
    /\ last.op = "Reshuffle"
    /\ ~last.gate
    /\ last.n >= 1
    /\ rotationMode = "90"
    /\ \E i \in 1..Len(pieces) :
           ~pieces[i].isPlaced /\ pieces[i].rotation \in {90, 180}

\* C36: a Reshuffle given in a Playing state with k unplaced pieces adds
\* exactly k to the move counter, and when no command had been given in the
\* session yet it sets the first-move latch and fires the first-move
\* notification, which starts the timer.
C36_ReshuffleCounts ==
    [][(last'.op = "Reshuffle" /\ ~completed /\ Len(pieces) > 0 /\ Reshuffle) =>
          /\ moveCount' = moveCount + Len(Unplaced(pieces))
          /\ ~hasStarted =>
                 (/\ hasStarted'
                  /\ firstMoveFired' > firstMoveFired
                  /\ ~completed' => isRunning')]_vars

\* The first command of a session was a Reshuffle of its two pieces.
C36_Witness ==
    /\ last.op = "Reshuffle"
    /\ ~last.gate
    /\ last.n = 2
    /\ moveCount = 2
    /\ hasStarted
    /\ isRunning

\* C37: at every moment of a session on the board, every piece lies within
\* the board: 0 <= currentX <= imageWidth - pieceW and
\* 0 <= currentY <= imageHeight - pieceH, the lengths being the doubles of
\* the program (a length written here is never below 0).
C37_WithinBoard ==
    \A i \in 1..Len(pieces) :
        /\ ~Less(mostX, pieces[i].currentX)
        /\ ~Less(mostY, pieces[i].currentY)

\* Move(a, ta) and then Move(b, tb), each its own handler.
TwoMoves(h, a, ta, b, tb) ==
    LET first == movePieceCall(h, ClosureOf(h), a, ta[1], ta[2], snapThreshold)
    IN  movePieceCall(first, ClosureOf(first), b, tb[1], tb[2], snapThreshold)

\* C38: from any state the session reaches, two Move commands on distinct
\* ids give the same pieces and the same completion flag in either order.
C38_MovesCommute ==
    \A a \in PieceIds, b \in PieceIds :
        a < b =>
            \A ta \in MoveTargets(pieces, a), tb \in MoveTargets(pieces, b) :
                LET ab == TwoMoves(Hook, a, ta, b, tb)
                    ba == TwoMoves(Hook, b, tb, a, ta)
                IN  ab.pieces = ba.pieces /\ ab.completed = ba.completed

\* Two loose upright pieces, which the two Moves to the correct positions
\* place in either order, completing the puzzle.
C38_Witness ==
    /\ Len(pieces) = 2
    /\ ~completed
    /\ \A i \in 1..2 : ~pieces[i].isPlaced /\ pieces[i].rotation = 0
    /\ pieces[1].currentX # pieces[1].correctX
    /\ LET t(i) == <<pieces[i].correctX, pieces[i].correctY>>
       IN  /\ TwoMoves(Hook, 0, t(1), 1, t(2)).completed
           /\ TwoMoves(Hook, 1, t(2), 0, t(1)).completed
           /\ TwoMoves(Hook, 0, t(1), 1, t(2)).pieces # pieces

====
